---------------------------- MODULE Spec2Model ----------------------------
(***************************************************************************)
(* A model of auth-tui (src/src/main.rs): the secrets store (load_secrets, *)
(* save_secrets, the import and export commands) over file texts that are  *)
(* sequences of characters, two import invocations racing on one secrets   *)
(* file, and the live display loop (run_tui, display, parse_totp,          *)
(* generate_code, seconds_remaining).                                      *)
(***************************************************************************)
EXTENDS Naturals, Integers, Sequences, FiniteSets, TLC

VARIABLES
    backing,      \* the secrets file (secrets_path): [ok, data]
    last,         \* what the last finished invocation read, wrote and printed
    ipc,          \* racing imports: each invocation's position in Command::Import
    existing,     \* racing imports: each invocation's `existing` vector
    new_secrets,  \* racing imports: each invocation's `new_secrets` vector
    saveOrder,    \* racing imports: the invocations in the order their save landed
    tpc,          \* run_tui: position in the function
    secrets,      \* run_tui: the snapshot loaded at entry
    first,        \* run_tui: the `first` flag
    now,          \* the system clock, in seconds since the epoch
    frame,        \* what the last call of display printed
    nframes       \* how many calls of display have printed

vars == <<backing, last, ipc, existing, new_secrets, saveOrder,
          tpc, secrets, first, now, frame, nframes>>

storeVars == <<backing, last>>
raceVars  == <<ipc, existing, new_secrets, saveOrder>>
tuiVars   == <<tpc, secrets, first, now, frame, nframes>>

-----------------------------------------------------------------------------
(* Bounds *)

\* Lines in the text of an import file of the sequential specification.
MaxIncoming == 2
\* Entries the store may hold before import is no longer offered.
MaxStore == 3
\* Chunks in a source text of the round-trip specification.
MaxSource == 4
\* Stored lines in the snapshot the display loop loads.
MaxLines == 3
\* Calls of display the display loop is followed for.
MaxFrames == 3
\* The latest second at which the display loop is started.
MaxStart == 29
\* Chunks in the text of an import file of a racing import.
MaxRaceIncoming == 3

-----------------------------------------------------------------------------
(* Texts: a text is a sequence of characters *)

LF == "\n"
CR == "\r"

\* The literal of load_secrets' starts_with.
Prefix == <<"o", "t", "p", "a", "u", "t", "h", ":", "/", "/">>

\* Two entries and the two line-ending characters; a source text of the
\* round trip may also hold a character that starts no entry.
UriA == Prefix \o <<"a">>
UriB == Prefix \o <<"b">>
Chunks == {UriA, UriB, <<LF>>, <<CR>>}
SourceChunks == Chunks \cup {<<"#">>}

\* What a line of an import file holds before its line feed: nothing, a
\* comment, an entry, or an entry and a carriage return.
LineBodies ==
    {<<>>, <<"#">>, UriA, UriB, UriA \o <<CR>>, UriB \o <<CR>>}

\* The texts of at most n lines, each ended by a line feed.
RECURSIVE TerminatedTexts(_)
TerminatedTexts(n) ==
    IF n = 0 THEN {<<>>}
    ELSE LET S == TerminatedTexts(n - 1) IN
         S \cup {s \o b \o <<LF>> : s \in S, b \in LineBodies}

\* The texts of at most n lines, the last of them with or without its line
\* feed.
LineTexts(n) ==
    IF n = 0 THEN {<<>>}
    ELSE TerminatedTexts(n)
           \cup {s \o b : s \in TerminatedTexts(n - 1), b \in LineBodies}

\* The texts made of at most n chunks.
RECURSIVE ChunkTexts(_, _)
ChunkTexts(chunks, n) ==
    IF n = 0 THEN {<<>>}
    ELSE LET S == ChunkTexts(chunks, n - 1) IN S \cup {s \o c : s \in S, c \in chunks}

\* A file: read_to_string gives Ok(data) or Err.
Present(text) == [ok |-> TRUE, data |-> text]
NoFile == [ok |-> FALSE, data |-> <<>>]

RaceFiles == {NoFile} \cup {Present(t) : t \in ChunkTexts(Chunks, MaxRaceIncoming)}
IncomingFiles == {NoFile} \cup {Present(t) : t \in LineTexts(MaxIncoming)}
SourceFiles == {NoFile} \cup {Present(t) : t \in ChunkTexts(SourceChunks, MaxSource)}

-----------------------------------------------------------------------------
(* load_secrets and save_secrets *)

\* The index of the first LF of s, 0 when it has none.
RECURSIVE FindLF(_, _)
FindLF(s, i) ==
    IF i > Len(s) THEN 0
    ELSE IF s[i] = LF THEN i
    ELSE FindLF(s, i + 1)

\* str::split_inclusive('\n'): the pieces of s, each ending with its LF.
RECURSIVE split_inclusive(_)
split_inclusive(s) ==
    IF s = <<>> THEN <<>>
    ELSE LET i == FindLF(s, 1) IN
         IF i = 0 THEN <<s>>
         ELSE <<SubSeq(s, 1, i)>> \o split_inclusive(SubSeq(s, i + 1, Len(s)))

\* What str::lines does to one piece: strip a final LF, and then a final CR.
strip_line_ending(piece) ==
    IF piece[Len(piece)] # LF THEN piece
    ELSE LET l == SubSeq(piece, 1, Len(piece) - 1) IN
         IF l # <<>> /\ l[Len(l)] = CR THEN SubSeq(l, 1, Len(l) - 1) ELSE l

\* str::lines.
lines(s) ==
    LET pieces == split_inclusive(s) IN
    [i \in 1..Len(pieces) |-> strip_line_ending(pieces[i])]

starts_with(l, p) == Len(l) >= Len(p) /\ SubSeq(l, 1, Len(p)) = p

\* fs::read_to_string(path).unwrap_or_default().
read_to_string_or_default(file) == IF file.ok THEN file.data ELSE <<>>

load_secrets(file) ==
    SelectSeq(lines(read_to_string_or_default(file)),
              LAMBDA l : starts_with(l, Prefix))

\* [String]::join("\n").
RECURSIVE join(_)
join(ls) ==
    IF ls = <<>> THEN <<>>
    ELSE IF Len(ls) = 1 THEN ls[1]
    ELSE ls[1] \o <<LF>> \o join(Tail(ls))

\* Writes a line ending after every line, the last one too.
save_terminated(ls) ==
    [ok |-> TRUE, data |-> IF ls = <<>> THEN <<>> ELSE join(ls) \o <<LF>>]

\* Replaces nothing: writes the lines after what the file already holds.
save_append(ls) ==
    [ok |-> TRUE, data |-> backing.data \o join(ls)]

\* The file fs::write leaves when it succeeds.
save_secrets(ls) == Present(join(ls))

-----------------------------------------------------------------------------
(* The import loop *)

contains(v, s) == \E i \in 1..Len(v) : v[i] = s

\* Appends every incoming string, whether or not the vector holds it.
push_all(v, incoming) == v \o incoming

\* for s in new_secrets { if !existing.contains(&s) { existing.push(s); } }
RECURSIVE import_loop(_, _)
import_loop(v, incoming) ==
    IF incoming = <<>> THEN v
    ELSE LET s == Head(incoming) IN
         import_loop(IF contains(v, s) THEN v ELSE Append(v, s), Tail(incoming))

-----------------------------------------------------------------------------
(* One invocation after another on the same secrets file *)

NoOutput == <<>>
NoInvocation ==
    [cmd |-> "none", before |-> NoFile, incoming |-> NoFile,
     stdout |-> NoOutput, stderr |-> NoOutput, exit |-> 0, written |-> NoFile]

\* The number of strings the loop appended.
appended_count(old, incoming) == Len(import_loop(old, incoming)) - Len(old)

\* let count = new_secrets.len(), taken before the loop runs.
import_count(old, incoming) == Len(incoming)

\* Command::Import with the import file `file` (the secrets file itself when
\* the path names it); `ok` is whether fs::write succeeds.
Import(file, ok) ==
    LET old == load_secrets(backing)
        incoming == load_secrets(file)
        count == import_count(old, incoming)
        merged == import_loop(old, incoming)
    IN  /\ last.cmd = "none"
        /\ Len(merged) <= MaxStore
        /\ IF ok
           THEN /\ backing' = save_secrets(merged)
                /\ last' = [cmd |-> "import", before |-> backing, incoming |-> file,
                            stdout |-> <<[msg |-> "Imported", n |-> count]>>,
                            stderr |-> NoOutput, exit |-> 0,
                            written |-> save_secrets(merged)]
           ELSE /\ backing' = backing
                /\ last' = [cmd |-> "import", before |-> backing, incoming |-> file,
                            stdout |-> NoOutput,
                            stderr |-> <<[msg |-> "Failed to save", n |-> 0]>>,
                            exit |-> 1, written |-> NoFile]
        /\ UNCHANGED <<raceVars, tuiVars>>

\* Command::Export; `self` is whether the path names the secrets file itself.
Export(self, ok) ==
    LET ls == load_secrets(backing) IN
        /\ last.cmd = "none"
        /\ IF ok
           THEN /\ backing' = IF self THEN save_secrets(ls) ELSE backing
                /\ last' = [cmd |-> "export", before |-> backing, incoming |-> NoFile,
                            stdout |-> <<[msg |-> "Exported", n |-> Len(ls)]>>,
                            stderr |-> NoOutput, exit |-> 0,
                            written |-> save_secrets(ls)]
           ELSE /\ backing' = backing
                /\ last' = [cmd |-> "export", before |-> backing, incoming |-> NoFile,
                            stdout |-> NoOutput,
                            stderr |-> <<[msg |-> "Failed to export", n |-> 0]>>,
                            exit |-> 1, written |-> NoFile]
        /\ UNCHANGED <<raceVars, tuiVars>>

\* The display command as the secrets file sees it: run_tui reads the file
\* once and never writes it.
Display ==
    LET ls == load_secrets(backing) IN
        /\ last.cmd = "none"
        /\ backing' = backing
        /\ last' = [cmd |-> "display", before |-> backing, incoming |-> NoFile,
                    stdout |-> NoOutput,
                    stderr |-> IF ls = <<>>
                               THEN <<[msg |-> "No secrets found", n |-> 0]>>
                               ELSE NoOutput,
                    exit |-> 0, written |-> NoFile]
        /\ UNCHANGED <<raceVars, tuiVars>>

\* The invocation's process ends (main returns, or process::exit(1)); the
\* next invocation starts from the secrets file it left.
Finish ==
    /\ last.cmd \notin {"none", "roundtrip"}
    /\ last' = NoInvocation
    /\ UNCHANGED <<backing, raceVars, tuiVars>>

RacePinned ==
    /\ ipc = <<>>
    /\ existing = <<>>
    /\ new_secrets = <<>>
    /\ saveOrder = <<>>

TuiPinned ==
    /\ tpc = "none"
    /\ secrets = <<>>
    /\ first = TRUE
    /\ now = 0
    /\ frame = <<>>
    /\ nframes = 0

Init ==
    /\ backing = NoFile
    /\ last = NoInvocation
    /\ RacePinned
    /\ TuiPinned

Next ==
    \/ /\ last.cmd = "none"
       /\ \E file \in IncomingFiles \cup {backing}, ok \in BOOLEAN : Import(file, ok)
    \/ \E self \in BOOLEAN, ok \in BOOLEAN : Export(self, ok)
    \/ Display
    \/ Finish

Spec == Init /\ [][Next]_vars

-----------------------------------------------------------------------------
(* The round trip save(load(source)) *)

\* save_secrets(path, &load_secrets(path)) on a source text.
RoundTrip ==
    /\ last.cmd = "none"
    /\ backing' = save_secrets(load_secrets(backing))
    /\ last' = [NoInvocation EXCEPT !.cmd = "roundtrip", !.before = backing,
                                    !.written = save_secrets(load_secrets(backing))]
    /\ UNCHANGED <<raceVars, tuiVars>>

InitRoundTrip ==
    /\ backing \in SourceFiles
    /\ last = NoInvocation
    /\ RacePinned
    /\ TuiPinned

NextRoundTrip == RoundTrip

SpecRoundTrip == InitRoundTrip /\ [][NextRoundTrip]_vars

-----------------------------------------------------------------------------
(* parse_totp, generate_code, seconds_remaining *)

\* A stored line, by what parse_totp reads of it: whether Url::parse and the
\* decoding of the label succeed, what the secret parameter is, and the
\* digits and period parameters: <<>> when absent, <<n>> when given, with a
\* negative n for a text that parse::<u32>/<u64> rejects.
Uri(url, secret, digits, period) ==
    [url |-> url, secret |-> secret, digits |-> digits, period |-> period]

UriKinds ==
    { Uri(FALSE, "valid", <<>>, <<>>),
      Uri(TRUE, "absent", <<>>, <<>>),
      Uri(TRUE, "undecodable", <<>>, <<>>),
      Uri(TRUE, "valid", <<>>, <<>>),
      Uri(TRUE, "valid", <<-1>>, <<-1>>),
      Uri(TRUE, "valid", <<8>>, <<60>>),
      Uri(TRUE, "valid", <<>>, <<0>>) }

RECURSIVE SeqsUpTo(_, _)
SeqsUpTo(S, n) ==
    IF n = 0 THEN {<<>>}
    ELSE LET T == SeqsUpTo(S, n - 1) IN T \cup {Append(t, x) : t \in T, x \in S}

StoredLines == SeqsUpTo(UriKinds, MaxLines)

DefaultDigits == 6
DefaultPeriod == 30
Window == 30
HeaderLines == 2

\* value.parse().unwrap_or(default)
parse_or(param, default) ==
    IF param = <<>> \/ param[1] < 0 THEN default ELSE param[1]

\* <<>> is None; <<totp>> is Some, with the digits and the step new_unchecked
\* is given.
parse_totp(uri) ==
    IF ~uri.url THEN <<>>
    ELSE IF uri.secret # "valid" THEN <<>>
    ELSE <<[digits |-> parse_or(uri.digits, DefaultDigits),
            period |-> parse_or(uri.period, DefaultPeriod)]>>

\* TOTP::generate: the code is computed from the counter time / step, and
\* the integer division panics when the step is 0.  The HMAC, the truncation
\* and the reduction modulo 10^digits are not modelled: a code is named by
\* its counter and its length.
generate(totp, time) ==
    IF totp.period = 0
    THEN [panic |-> TRUE, counter |-> 0, digits |-> totp.digits]
    ELSE [panic |-> FALSE, counter |-> time \div totp.period, digits |-> totp.digits]

generate_code(totp, time) == generate(totp, time)

\* One second less than the window leaves.
seconds_remaining_short(time) == (Window - 1) - (time % Window)

seconds_remaining(time) == Window - (time % Window)

-----------------------------------------------------------------------------
(* display and run_tui *)

NoFrame == [time |-> 0, up |-> 0, rows |-> <<>>, complete |-> FALSE]

\* let line_count = 2 + secrets.len();
line_count(ls) == HeaderLines + Len(ls)

\* The loop of display from line i on: the rows printed, and whether
\* generate_code panicked before the loop ended.
RECURSIVE display_rows(_, _, _, _, _)
display_rows(ls, i, time, remaining, printed) ==
    IF i > Len(ls) THEN [rows |-> printed, complete |-> TRUE]
    ELSE LET parsed == parse_totp(ls[i]) IN
         IF parsed = <<>> THEN display_rows(ls, i + 1, time, remaining, printed)
         ELSE LET code == generate_code(parsed[1], time) IN
              IF code.panic THEN [rows |-> printed, complete |-> FALSE]
              ELSE display_rows(ls, i + 1, time, remaining,
                                Append(printed, [line |-> i,
                                                 period |-> parsed[1].period,
                                                 code |-> [counter |-> code.counter,
                                                           digits |-> code.digits],
                                                 ttl |-> remaining]))

\* display(secrets, up) at clock `time`: the cursor movement (0: none), then
\* the header, the rule and the rows.
display(ls, up, time) ==
    LET out == display_rows(ls, 1, time, seconds_remaining(time), <<>>) IN
    [time |-> time, up |-> up, rows |-> out.rows, complete |-> out.complete]

\* run_tui up to the loop: the one load of the store, and the return when
\* it is empty.
RunTuiEntry(ls) ==
    /\ tpc = "entry"
    /\ secrets' = ls
    /\ tpc' = IF ls = <<>> THEN "returned" ELSE "display"
    /\ UNCHANGED <<first, now, frame, nframes, storeVars, raceVars>>

\* display(&secrets, if first { 0 } else { line_count }); first = false;
DisplayFrame ==
    /\ tpc = "display"
    /\ frame' = display(secrets, IF first THEN 0 ELSE line_count(secrets), now)
    /\ nframes' = nframes + 1
    /\ first' = IF frame'.complete THEN FALSE ELSE first
    /\ tpc' = IF frame'.complete THEN "sleep" ELSE "panicked"
    /\ UNCHANGED <<secrets, now, storeVars, raceVars>>

\* std::thread::sleep(Duration::from_secs(1)): the thread wakes after one
\* second, or later.
Sleep(d) ==
    /\ tpc = "sleep"
    /\ nframes < MaxFrames
    /\ now' = now + d
    /\ tpc' = "display"
    /\ UNCHANGED <<secrets, first, frame, nframes, storeVars, raceVars>>

InitTui ==
    /\ backing = NoFile
    /\ last = NoInvocation
    /\ RacePinned
    /\ tpc = "entry"
    /\ secrets = <<>>
    /\ first = TRUE
    /\ now \in 0..MaxStart
    /\ frame = NoFrame
    /\ nframes = 0

NextTui ==
    \/ /\ tpc = "entry"
       /\ \E ls \in StoredLines : RunTuiEntry(ls)
    \/ DisplayFrame
    \/ \E d \in {1, 2} : Sleep(d)

SpecTui == InitTui /\ [][NextTui]_vars

-----------------------------------------------------------------------------
(* Properties of the display loop *)

ParsingLines == {i \in 1..Len(secrets) : parse_totp(secrets[i]) # <<>>}

\* C5 (as stated): the first frame moves the cursor by nothing, every later
\* frame moves it up by 2 + the number of stored lines, and every frame has
\* one data row for each stored line that parses.
C5_FrameGeometry ==
    nframes >= 1 =>
        /\ frame.up = IF nframes = 1 THEN 0 ELSE 2 + Len(secrets)
        /\ Len(frame.rows) = Cardinality(ParsingLines)
        /\ \A i \in ParsingLines : \E r \in 1..Len(frame.rows) : frame.rows[r].line = i

\* C6 (as stated): whatever a stored line holds, the display loop keeps
\* running, and the frame it prints has the row of every line that parses.
C6_NoLineStopsTheLoop ==
    /\ tpc # "panicked"
    /\ nframes >= 1 =>
         \A i \in ParsingLines : \E r \in 1..Len(frame.rows) : frame.rows[r].line = i

\* C7: seconds_remaining is between 1 and 30 at every second, it is one less
\* a second later unless it was 1, when it is 30 again, and every row of a
\* frame shows 30 - (time mod 30) for the time of the frame, whatever the
\* period of its entry.
C7_FixedWindowCountdown ==
    /\ seconds_remaining(now) \in 1..30
    /\ seconds_remaining(now + 1) =
         IF seconds_remaining(now) = 1 THEN 30 ELSE seconds_remaining(now) - 1
    /\ \A r \in 1..Len(frame.rows) : frame.rows[r].ttl = 30 - (frame.time % 30)

\* A redrawn frame with a row whose entry has a period other than 30 and
\* whose shown seconds are not those left of the entry's own period.
C7_Witness ==
    /\ nframes >= 2
    /\ \E r \in 1..Len(frame.rows) :
         /\ frame.rows[r].period # 30
         /\ frame.rows[r].ttl # frame.rows[r].period - (frame.time % frame.rows[r].period)

\* C9 (as stated): the loop is entered with the store loaded once, it
\* returns only when that store is empty, having printed no frame, and with
\* a store that is not empty it is never in a state it cannot leave: after
\* a frame it sleeps, with `first` cleared.
C9_OnlyExitIsTheEmptyStore ==
    /\ tpc = "returned" => (secrets = <<>> /\ nframes = 0)
    /\ (tpc # "entry" /\ secrets = <<>>) => (tpc = "returned" /\ nframes = 0)
    /\ (tpc # "entry" /\ secrets # <<>>) => tpc \in {"display", "sleep"}
    /\ (tpc = "sleep") => (~first /\ frame.complete)

-----------------------------------------------------------------------------
(* Properties of the store *)

IsPrefix(a, b) == Len(a) <= Len(b) /\ SubSeq(b, 1, Len(a)) = a

NoDuplicate(v) == \A i, j \in 1..Len(v) : v[i] = v[j] => i = j

ImportedOk == last.cmd = "import" /\ last.exit = 0

\* `current` followed by every incoming line that `current` does not hold.
ClaimedMerge(current, incoming) ==
    current \o SelectSeq(incoming, LAMBDA s : ~contains(current, s))

\* The places of incoming whose line is neither in `current` nor earlier in
\* incoming.
FirstNewPlaces(current, incoming) ==
    {i \in 1..Len(incoming) :
        /\ ~contains(current, incoming[i])
        /\ \A j \in 1..(i - 1) : incoming[j] # incoming[i]}

RECURSIVE AtPlaces(_, _, _)
AtPlaces(v, places, i) ==
    IF i > Len(v) THEN <<>>
    ELSE (IF i \in places THEN <<v[i]>> ELSE <<>>) \o AtPlaces(v, places, i + 1)

FirstOccurrenceMerge(current, incoming) ==
    current \o AtPlaces(incoming, FirstNewPlaces(current, incoming), 1)

\* C1 (as amended): the text a successful import persists is the join by
\* line feeds of `current` followed by the first occurrence, in incoming
\* order, of every incoming line that `current` does not hold.
C1_ImportPersistsFirstOccurrences ==
    ImportedOk =>
        backing = Present(join(FirstOccurrenceMerge(load_secrets(last.before),
                                                    load_secrets(last.incoming))))

\* C1 (as stated): the persisted store is `current` followed by every
\* incoming line not in `current`, repeated incoming lines included.
C1_ImportPersistsEveryNewLine ==
    ImportedOk =>
        backing = Present(join(ClaimedMerge(load_secrets(last.before),
                                            load_secrets(last.incoming))))

\* An import whose file holds a line the store has and a line it has not.
C1_Witness ==
    /\ ImportedOk
    /\ LET current == load_secrets(last.before)
           incoming == load_secrets(last.incoming)
       IN  /\ \E i \in 1..Len(incoming) : contains(current, incoming[i])
           /\ \E i \in 1..Len(incoming) : ~contains(current, incoming[i])
           /\ Len(load_secrets(backing)) = Len(current) + 1

\* C2 (as stated): over every invocation the entries of the secrets file
\* before it are a prefix of the entries after it, and only import makes
\* the sequence longer.
C2_AppendOnly ==
    [][/\ IsPrefix(load_secrets(backing), load_secrets(backing'))
       /\ (Len(load_secrets(backing')) > Len(load_secrets(backing))
             => last'.cmd = "import")]_vars

\* The number of lines of the import file that begin with the prefix.
EntryLineCount(file) ==
    LET ls == lines(read_to_string_or_default(file)) IN
    Cardinality({i \in 1..Len(ls) : starts_with(ls[i], Prefix)})

\* C8: import prints the number of entry lines read from the import file,
\* duplicates of stored entries included, and prints it only when the save
\* succeeded.
C8_ReportedCountIsIncomingCount ==
    last.cmd = "import" =>
        IF last.exit = 0
        THEN last.stdout = <<[msg |-> "Imported", n |-> EntryLineCount(last.incoming)]>>
        ELSE last.stdout = NoOutput /\ last.exit = 1

\* An import that printed a count larger than the number of entries it added.
C8_Witness ==
    /\ ImportedOk
    /\ Len(last.stdout) = 1
    /\ last.stdout[1].n >
         Len(load_secrets(backing)) - Len(load_secrets(last.before))
    /\ Len(load_secrets(backing)) > Len(load_secrets(last.before))

\* C10 (as stated): an import into a store without duplicates leaves a store
\* without duplicates, and importing the same file again changes nothing.
C10_ImportNeverDuplicates ==
    (ImportedOk /\ NoDuplicate(load_secrets(last.before))) =>
        /\ NoDuplicate(load_secrets(backing))
        /\ save_secrets(import_loop(load_secrets(backing),
                                    load_secrets(last.incoming))) = backing

-----------------------------------------------------------------------------
(* Properties of the round trip *)

AllLinesPrefixed(text) ==
    \A i \in 1..Len(lines(text)) : starts_with(lines(text)[i], Prefix)

EndsWithLF(text) == text # <<>> /\ text[Len(text)] = LF

HasCRLF(text) == \E i \in 1..(Len(text) - 1) : text[i] = CR /\ text[i + 1] = LF

DropFinalCR(l) ==
    IF l # <<>> /\ l[Len(l)] = CR THEN SubSeq(l, 1, Len(l) - 1) ELSE l

\* Every line of the saved text is an entry, and the i-th is the i-th entry
\* line of the source (less a carriage return that ended it, unless it is
\* the last).
SavedLinesAreTheEntries(source, saved) ==
    LET kept == load_secrets(source)
        out == lines(saved.data)
    IN  /\ Len(out) = Len(kept)
        /\ \A i \in 1..Len(out) :
             /\ starts_with(out[i], Prefix)
             /\ out[i] = IF i < Len(kept) THEN DropFinalCR(kept[i]) ELSE kept[i]

\* C4 (as amended): save(load(source)) reproduces a source whose lines all
\* begin with the prefix exactly when the source neither ends with a line
\* feed nor holds a carriage return before a line feed; for any source the
\* saved lines are the source's entry lines in order and no other line.
C4_RoundTripUpToLineEndings ==
    last.cmd = "roundtrip" =>
        LET text == read_to_string_or_default(last.before) IN
        /\ (AllLinesPrefixed(text) /\ ~EndsWithLF(text) /\ ~HasCRLF(text))
              => backing.data = text
        /\ (AllLinesPrefixed(text) /\ (EndsWithLF(text) \/ HasCRLF(text)))
              => backing.data # text
        /\ SavedLinesAreTheEntries(last.before, backing)

\* C4 (as stated): every source whose lines all begin with the prefix is
\* reproduced exactly, and the lines without the prefix are gone.
C4_RoundTripExact ==
    last.cmd = "roundtrip" =>
        LET text == read_to_string_or_default(last.before) IN
        /\ AllLinesPrefixed(text) => backing.data = text
        /\ AllLinesPrefixed(backing.data)
        /\ Len(lines(backing.data)) = Len(load_secrets(last.before))

\* A source of two entry lines that the round trip reproduced.
C4_Witness ==
    /\ last.cmd = "roundtrip"
    /\ Len(lines(last.before.data)) = 2
    /\ AllLinesPrefixed(last.before.data)
    /\ backing.data = last.before.data

-----------------------------------------------------------------------------
(* Two import invocations racing on the same secrets file *)

Procs == {1, 2}

\* let mut existing = load_secrets(&secrets_path);
LoadExisting(p) ==
    /\ ipc[p] = "load_existing"
    /\ existing' = [existing EXCEPT ![p] = load_secrets(backing)]
    /\ ipc' = [ipc EXCEPT ![p] = "load_new"]
    /\ UNCHANGED <<backing, last, new_secrets, saveOrder, tuiVars>>

\* let new_secrets = load_secrets(&path); and the loop over it, which
\* touches nothing but the invocation's own vectors.
LoadNew(p, file) ==
    /\ ipc[p] = "load_new"
    /\ new_secrets' = [new_secrets EXCEPT ![p] = load_secrets(file)]
    /\ existing' = [existing EXCEPT ![p] = import_loop(existing[p], load_secrets(file))]
    /\ ipc' = [ipc EXCEPT ![p] = "save"]
    /\ UNCHANGED <<backing, last, saveOrder, tuiVars>>

\* save_secrets(&secrets_path, &existing), then the report or exit(1).
Save(p, ok) ==
    /\ ipc[p] = "save"
    /\ IF ok
       THEN /\ backing' = save_secrets(existing[p])
            /\ saveOrder' = Append(saveOrder, p)
            /\ ipc' = [ipc EXCEPT ![p] = "done"]
       ELSE /\ backing' = backing
            /\ saveOrder' = saveOrder
            /\ ipc' = [ipc EXCEPT ![p] = "failed"]
    /\ UNCHANGED <<last, existing, new_secrets, tuiVars>>

InitRace ==
    /\ backing = NoFile
    /\ last = NoInvocation
    /\ ipc = [p \in Procs |-> "load_existing"]
    /\ existing = [p \in Procs |-> <<>>]
    /\ new_secrets = [p \in Procs |-> <<>>]
    /\ saveOrder = <<>>
    /\ TuiPinned

NextRace ==
    \E p \in Procs :
        \/ LoadExisting(p)
        \/ /\ ipc[p] = "load_new"
           /\ \E file \in RaceFiles \cup {backing} : LoadNew(p, file)
        \/ \E ok \in BOOLEAN : Save(p, ok)

SpecRace == InitRace /\ [][NextRace]_vars

\* C3: the secrets file always holds exactly what the invocation that saved
\* last wrote, whatever an earlier writer had appended (last writer wins).
C3_LastWriterWins ==
    saveOrder # <<>> =>
        backing = Present(join(existing[saveOrder[Len(saveOrder)]]))

\* Both imports reported success and the secrets file lacks an entry that
\* one of them read from its import file and saved.
C3_Witness ==
    /\ \A p \in Procs : ipc[p] = "done"
    /\ \E p \in Procs : \E i \in 1..Len(new_secrets[p]) :
         /\ contains(existing[p], new_secrets[p][i])
         /\ DropFinalCR(new_secrets[p][i]) = new_secrets[p][i]
         /\ ~contains(load_secrets(backing), new_secrets[p][i])

=============================================================================
